---- MODULE Spec2Model ----
(***************************************************************************)
(* GitHub Events Monitor (src/app.py): a Flask application that receives   *)
(* GitHub webhooks, normalizes them into event documents kept in a MongoDB *)
(* collection, and serves them back on GET /events and GET /.              *)
(*                                                                         *)
(* Text is modelled as follows.  Names (logins, ids, ...) are TLA+ strings;*)
(* "MISSING" marks an absent key, "NULL" a JSON null, "NONOBJ" a JSON      *)
(* value that is no object, "OBJ" a JSON object.  A git ref / branch name  *)
(* is a sequence of tokens, so that str.replace is a real substring        *)
(* replacement; an ISO-8601 timestamp is a sequence of characters, so that *)
(* MongoDB's comparison of timestamps is the comparison of strings it is   *)
(* in the code.  The derived field formatted_message, which the handlers   *)
(* add to what they return and never store, is left out of the responses.  *)
(***************************************************************************)
EXTENDS Integers, Sequences, FiniteSets, TLC

VARIABLES
    client,             \* module-level `client`: TRUE iff the MongoClient was obtained
    GITHUB_SECRET,      \* module-level GITHUB_SECRET ("" when unset)
    events_collection,  \* the documents of the collection, in insertion order
    clock,              \* the server clock, read by datetime.now(pytz.UTC)
    last                \* the last request handled and its response

vars == <<client, GITHUB_SECRET, events_collection, clock, last>>

(***************************** bounds **************************************)
MaxStore == 2
MaxHour == 48
MaxRefLen == 3

(***************************** time ****************************************)
\* timedelta(hours=24)
RetentionHours == 24

\* An instant is [h |-> whole hours, u |-> 0 (microsecond field is zero) or
\* 1 (microsecond field is 500000)].  The clock starts RetentionHours after
\* the origin so that now - 24h is an instant too.
StartHour == RetentionHours

Instant(h, u) == [h |-> h, u |-> u]

Before(a, b) == a.h < b.h \/ (a.h = b.h /\ a.u < b.u)

\* now - timedelta(hours=24): the microsecond field is kept.
MinusRetention(t) == Instant(t.h - RetentionHours, t.u)

Digit == <<"0", "1", "2", "3", "4", "5", "6", "7", "8", "9">>

\* datetime.isoformat() of a UTC instant: the zero-padded fixed-width part
\* (here the two digits of the hour count), then ".ffffff" only when the
\* microsecond field is not zero, then the offset "+00:00".
isoformat(t) ==
    <<Digit[(t.h \div 10) + 1], Digit[(t.h % 10) + 1]>>
    \o (IF t.u = 0 THEN <<>> ELSE <<".", "5", "0", "0", "0", "0", "0">>)
    \o <<"+", "0", "0", ":", "0", "0">>

\* Code points of the characters of a timestamp.
Ord ==
    [c \in {"+", ".", ":"} \cup {Digit[i] : i \in 1..10} |->
        CASE c = "+" -> 43
          [] c = "." -> 46
          [] c = ":" -> 58
          [] OTHER -> 47 + (CHOOSE i \in 1..10 : Digit[i] = c)]

\* MongoDB's order on strings (simple binary comparison): a < b.
RECURSIVE StrLess(_, _)
StrLessEq(a, b) == a = b \/ StrLess(a, b)
StrLess(a, b) ==
    IF b = <<>> THEN FALSE
    ELSE IF a = <<>> THEN TRUE
    ELSE IF Ord[Head(a)] # Ord[Head(b)] THEN Ord[Head(a)] < Ord[Head(b)]
    ELSE StrLess(Tail(a), Tail(b))

(***************************** payloads ************************************)
\* 'refs/heads/'
BranchPrefix == <<"refs/", "heads/">>

RECURSIVE Replace(_, _)
\* str.replace(old, ''): every non-overlapping occurrence, left to right.
Replace(s, old) ==
    IF Len(s) < Len(old) THEN s
    ELSE IF SubSeq(s, 1, Len(old)) = old
         THEN Replace(SubSeq(s, Len(old) + 1, Len(s)), old)
         ELSE <<Head(s)>> \o Replace(Tail(s), old)

\* dict.get(key, default) on a present-or-absent string value.
Get(v, default) == IF v = "MISSING" THEN default ELSE v

\* d.get(key, {}).get(leaf, ''): the value when the outer key holds an object.
Nested(obj, leaf) == IF obj = "OBJ" THEN Get(leaf, "") ELSE ""

\* d.get(key, {}).get(...) raises AttributeError when the key is present
\* and holds null or a value that is no object.
AnythingButADict(obj) == obj # "OBJ"
NotADict(obj) == obj \in {"NULL", "NONOBJ"}

\* The JSON body of a request, flattened.  `body` is what request.json gives:
\* "object" (a JSON object), "empty" (a falsy value, replaced by {} on line
\* 146) or "nonobject" (a truthy value that is no object).
EmptyPayload ==
    [body |-> "empty",
     sender |-> "MISSING", sender_login |-> "MISSING",
     repository |-> "MISSING", repository_full_name |-> "MISSING",
     pusher_name |-> "MISSING",
     after |-> "MISSING",
     ref |-> [k |-> "MISSING", s |-> <<>>],
     action |-> "MISSING",
     pull_request |-> "MISSING",
     pr_merged |-> "MISSING", pr_id |-> "MISSING",
     pr_head |-> "MISSING", pr_head_ref |-> <<>>,
     pr_base |-> "MISSING", pr_base_ref |-> <<>>,
     pr_user_login |-> "MISSING"]

(***************************** webhook: normalization ***********************)
\* The event dict of lines 151-159, before the dispatch on the event type.
\* The author is sender.login, whatever the event type.
AuthorPusherFirst(data) ==
    IF data.pusher_name # "MISSING" THEN data.pusher_name
    ELSE IF Nested(data.sender, data.sender_login) # ""
         THEN Nested(data.sender, data.sender_login)
         ELSE "Unknown"
AuthorOf(data) == Nested(data.sender, data.sender_login)

BaseEvent(data, current_time) ==
    [request_id |-> "",
     author |-> AuthorOf(data),
     action |-> "UNKNOWN",
     from_branch |-> <<>>,
     to_branch |-> <<>>,
     timestamp |-> current_time,
     repository |-> Nested(data.repository, data.repository_full_name),
     has_object_id |-> FALSE]

\* Lines 172 and 179: which branch of the pull_request dispatch is taken.
\* pr_data.get('merged') is tested for truth only when action == 'closed'.
IsMerge(data) ==
    Get(data.action, "") = "closed" /\ data.pr_merged = "true"
PullRequestActions == {"opened", "reopened", "synchronize"}
IsPullRequest(data) ==
    ~IsMerge(data) /\ Get(data.action, "") \in PullRequestActions

\* Whether lines 146-185 raise (AttributeError) on this payload: an access
\* d.get(...) or s.replace(...) on a value that is no dict / no string.
NormalizeRaises(event_type, data) ==
    \/ data.body = "nonobject"
    \/ NotADict(data.sender)
    \/ NotADict(data.repository)
    \/ event_type = "push" /\ data.ref.k \in {"NULL", "NONSTR"}
    \/ /\ event_type = "pull_request"
       /\ NotADict(data.pull_request)
       /\ \/ Get(data.action, "") = "closed"
          \/ Get(data.action, "") \in PullRequestActions
    \/ /\ event_type = "pull_request"
       /\ IsMerge(data) \/ IsPullRequest(data)
       /\ NotADict(data.pr_head) \/ NotADict(data.pr_base)

\* The fields both pull_request branches take from pr_data (lines 173-185).
PrFields(event, data, action) ==
    [event EXCEPT
        !.request_id = Get(data.pr_id, ""),
        !.action = action,
        !.from_branch = IF data.pr_head = "OBJ" THEN data.pr_head_ref ELSE <<>>,
        !.to_branch = IF data.pr_base = "OBJ" THEN data.pr_base_ref ELSE <<>>]

\* to_branch of a push: data.get('ref', '').replace('refs/heads/', '')
PushBranch(data) == Replace(data.ref.s, BranchPrefix)

\* Lines 151-185 on a payload on which they do not raise.
Normalize(event_type, data, current_time) ==
    LET event == BaseEvent(data, current_time) IN
    IF event_type = "push"
    THEN [event EXCEPT
            !.request_id = Get(data.after, ""),
            !.action = "PUSH",
            !.to_branch = PushBranch(data)]
    ELSE IF event_type = "pull_request" /\ IsMerge(data)
    THEN PrFields(event, data, "MERGE")
    ELSE IF event_type = "pull_request" /\ IsPullRequest(data)
    THEN PrFields(event, data, "PULL_REQUEST")
    ELSE event

(***************************** webhook: the handler *************************)
\* verify_github_signature(request.get_data(), signature): "True", "False",
\* or "TypeError" (hmac.compare_digest refuses a str with non-ASCII
\* characters; a header value may hold any Latin-1 character).
\* signature is "absent", "valid" (equal to 'sha1=' + the hex HMAC-SHA1 of
\* the body under the secret), "wrong" (an ASCII string that differs) or
\* "nonascii" (a differing string with a non-ASCII character).
verify_github_signature(secret, signature) ==
    IF secret = "" \/ signature = "absent" THEN "False"
    ELSE IF signature = "nonascii" THEN "TypeError"
    ELSE IF signature = "valid" THEN "True"
    ELSE "False"

\* `if not client`: the connection was not obtained at import.
NeverUnavailable(cl) == FALSE
StoreUnavailable(cl) == ~cl

\* Line 188: only store valid events.
StoresUnknownToo(event) == TRUE
ShouldStore(event) == event.action # "UNKNOWN"

\* The document insert_one writes: the event's fields (the store adds _id).
Document(event) ==
    [request_id |-> event.request_id,
     author |-> event.author,
     action |-> event.action,
     from_branch |-> event.from_branch,
     to_branch |-> event.to_branch,
     timestamp |-> event.timestamp,
     repository |-> event.repository]

NoEvent == BaseEvent(EmptyPayload, <<>>)

\* webhook(): the status, the handler's event dict when it was built, and
\* the collection afterwards.  insert_one adds an ObjectId under '_id' to
\* the dict it is given, which jsonify cannot serialize: the TypeError is
\* caught on line 194 and answered 500, after the insert.
WebhookResult(req, store, now, cl, secret) ==
    IF StoreUnavailable(cl)
    THEN [status |-> 503, event |-> NoEvent, store |-> store]
    ELSE LET v == verify_github_signature(secret, req.signature) IN
    IF v = "TypeError"
    THEN [status |-> 500, event |-> NoEvent, store |-> store]
    ELSE IF v = "False"
    THEN [status |-> 401, event |-> NoEvent, store |-> store]
    ELSE IF NormalizeRaises(req.event_type, req.data)
    THEN [status |-> 500, event |-> NoEvent, store |-> store]
    ELSE LET event == Normalize(req.event_type, req.data, isoformat(now)) IN
    IF ShouldStore(event)
    THEN [status |-> 500,
          event |-> [event EXCEPT !.has_object_id = TRUE],
          store |-> Append(store, Document(event))]
    ELSE [status |-> 200, event |-> event, store |-> store]

(***************************** retention and reads **************************)
\* {'timestamp': {'$lt': cutoff}}: the documents delete_many removes.
ExpiredLte(timestamp, cutoff) == StrLessEq(timestamp, cutoff)
Expired(timestamp, cutoff) == StrLess(timestamp, cutoff)

\* clean_old_events(): the collection after delete_many.
clean_old_events(store, now, cl) ==
    IF StoreUnavailable(cl) THEN store
    ELSE LET cutoff == isoformat(MinusRetention(now))
         IN SelectSeq(store, LAMBDA d : ~Expired(d.timestamp, cutoff))

\* a comes no later than b in find().sort('timestamp', -1).
AscendingOrder(a, b) == ~StrLess(b.timestamp, a.timestamp)
SortOrder(a, b) == ~StrLess(a.timestamp, b.timestamp)

\* find().sort('timestamp', -1): every listing of the documents in
\* descending order of timestamp (documents with equal timestamps come in
\* an order the store chooses).
FindSorted(store) ==
    LET n == Len(store)
        perms == {f \in [1..n -> 1..n] : \A i, j \in 1..n : i # j => f[i] # f[j]}
    IN {[i \in 1..n |-> store[f[i]]] : f \in
            {g \in perms : \A i \in 1..n, j \in 1..n :
                i < j => SortOrder(store[g[i]], store[g[j]])}}

(***************************** requests *************************************)
SeqsUpTo(S, n) == UNION {[1..k -> S] : k \in 0..n}

RefTokens == {"refs/", "heads/", "main"}

NoRef == [k |-> "MISSING", s |-> <<>>]
RefChoices ==
    {NoRef, [k |-> "NULL", s |-> <<>>], [k |-> "NONSTR", s |-> <<>>]}
    \cup {[k |-> "STR", s |-> x] : x \in SeqsUpTo(RefTokens, MaxRefLen)}

\* <<sender, sender.login>> and <<repository, repository.full_name>>
SenderChoices ==
    {<<"MISSING", "MISSING">>, <<"NULL", "MISSING">>, <<"NONOBJ", "MISSING">>,
     <<"OBJ", "MISSING">>, <<"OBJ", "alice">>}
RepositoryChoices ==
    {<<"MISSING", "MISSING">>, <<"NULL", "MISSING">>, <<"OBJ", "octo/repo">>}
\* <<head or base, its ref>>
BranchChoices(name) ==
    {<<"MISSING", <<>>>>, <<"NULL", <<>>>>, <<"OBJ", <<name>>>>}

WithActor(data, sender, repository) ==
    [data EXCEPT
        !.body = "object",
        !.sender = sender[1], !.sender_login = sender[2],
        !.repository = repository[1], !.repository_full_name = repository[2]]

PushPayloads ==
    {[WithActor(EmptyPayload, sender, repository) EXCEPT
        !.pusher_name = pusher, !.after = after, !.ref = ref] :
        sender \in SenderChoices, repository \in RepositoryChoices,
        pusher \in {"MISSING", "carol"}, after \in {"MISSING", "abc123"},
        ref \in RefChoices}

PullRequestObjects ==
    {[EmptyPayload EXCEPT !.pull_request = k] : k \in {"MISSING", "NULL", "NONOBJ"}}
    \cup
    {[EmptyPayload EXCEPT
        !.pull_request = "OBJ",
        !.pr_merged = merged, !.pr_id = id,
        !.pr_head = head[1], !.pr_head_ref = head[2],
        !.pr_base = base[1], !.pr_base_ref = base[2],
        !.pr_user_login = user] :
        merged \in {"MISSING", "true", "false"}, id \in {"MISSING", "42"},
        head \in BranchChoices("feature"), base \in BranchChoices("main"),
        user \in {"MISSING", "bob"}}

PullRequestPayloads ==
    {[WithActor(pr, sender, repository) EXCEPT !.action = action] :
        pr \in PullRequestObjects,
        sender \in {<<"MISSING", "MISSING">>, <<"OBJ", "alice">>},
        repository \in {<<"MISSING", "MISSING">>, <<"OBJ", "octo/repo">>},
        action \in {"MISSING", "opened", "reopened", "synchronize", "closed",
                    "labeled"}}

Payloads ==
    PushPayloads \cup PullRequestPayloads
    \cup {EmptyPayload, [EmptyPayload EXCEPT !.body = "nonobject"]}

EventTypes == {"push", "pull_request", "ping"}
Signatures == {"absent", "valid", "wrong", "nonascii"}

Request(event_type, signature, data) ==
    [event_type |-> event_type, signature |-> signature, data |-> data]

\* A few well-formed deliveries.
PushMain ==
    [WithActor(EmptyPayload, <<"OBJ", "alice">>, <<"OBJ", "octo/repo">>) EXCEPT
        !.pusher_name = "carol", !.after = "abc123",
        !.ref = [k |-> "STR", s |-> <<"refs/", "heads/", "main">>]]
PullRequest(action, merged) ==
    [WithActor(EmptyPayload, <<"OBJ", "alice">>, <<"OBJ", "octo/repo">>) EXCEPT
        !.action = action,
        !.pull_request = "OBJ", !.pr_merged = merged, !.pr_id = "42",
        !.pr_head = "OBJ", !.pr_head_ref = <<"feature">>,
        !.pr_base = "OBJ", !.pr_base_ref = <<"main">>,
        !.pr_user_login = "bob"]
Deliveries ==
    {PushMain, PullRequest("opened", "false"), PullRequest("closed", "true"),
     PullRequest("labeled", "false")}
ServiceDeliveries ==
    {PushMain, PullRequest("opened", "false"), PullRequest("closed", "true")}

\* The requests of the running service, and those of a single webhook call.
ServiceRequests ==
    {Request(t, g, d) : t \in EventTypes, g \in {"valid", "wrong"},
                        d \in ServiceDeliveries}
CallRequests ==
    {Request(t, g, d) : t \in EventTypes, g \in Signatures, d \in Deliveries}
    \cup {Request(t, "valid", d) : t \in EventTypes, d \in Payloads}

(***************************** actions **************************************)
NoRequest == Request("", "absent", EmptyPayload)

Response(route, status, error, req, event, before, at, events) ==
    [route |-> route, status |-> status, error |-> error, request |-> req,
     event |-> event, before |-> before, at |-> at, events |-> events]

\* POST /webhook
Webhook(req) ==
    LET r == WebhookResult(req, events_collection, clock, client, GITHUB_SECRET) IN
    /\ Len(r.store) <= MaxStore
    /\ events_collection' = r.store
    /\ last' = Response("webhook", r.status, r.status # 200, req, r.event,
                        events_collection, clock, <<>>)
    /\ UNCHANGED <<client, GITHUB_SECRET, clock>>

\* GET /events
GetEvents ==
    IF StoreUnavailable(client)
    THEN /\ last' = Response("events", 503, TRUE, NoRequest, NoEvent,
                             events_collection, clock, <<>>)
         /\ UNCHANGED <<client, GITHUB_SECRET, events_collection, clock>>
    ELSE /\ events_collection' = clean_old_events(events_collection, clock, client)
         /\ \E events \in FindSorted(events_collection') :
                last' = Response("events", 200, FALSE, NoRequest, NoEvent,
                                 events_collection, clock, events)
         /\ UNCHANGED <<client, GITHUB_SECRET, clock>>

\* GET /
Index ==
    IF StoreUnavailable(client)
    THEN /\ last' = Response("index", 200, TRUE, NoRequest, NoEvent,
                             events_collection, clock, <<>>)
         /\ UNCHANGED <<client, GITHUB_SECRET, events_collection, clock>>
    ELSE /\ events_collection' = clean_old_events(events_collection, clock, client)
         /\ \E events \in FindSorted(events_collection') :
                last' = Response("index", 200, FALSE, NoRequest, NoEvent,
                                 events_collection, clock, events)
         /\ UNCHANGED <<client, GITHUB_SECRET, clock>>

\* Time passes between requests.
Advance ==
    /\ \E h \in {clock.h, clock.h + RetentionHours \div 2, clock.h + RetentionHours},
          u \in {0, 1} :
            /\ h <= MaxHour
            /\ Before(clock, Instant(h, u))
            /\ clock' = Instant(h, u)
    /\ UNCHANGED <<client, GITHUB_SECRET, events_collection, last>>

Boot == Response("boot", 0, FALSE, NoRequest, NoEvent, <<>>, Instant(StartHour, 0), <<>>)

\* After import: the connection was obtained or not, the secret is set or not.
Init ==
    /\ client \in BOOLEAN
    /\ GITHUB_SECRET \in {"", "s3cret"}
    /\ events_collection = <<>>
    /\ clock = Instant(StartHour, 0)
    /\ last = Boot

Next ==
    \/ \E req \in ServiceRequests : Webhook(req)
    \/ GetEvents
    \/ Index
    \/ Advance

Spec == Init /\ [][Next]_vars

\* One webhook call, on every request of CallRequests, against a collection
\* that is empty or holds a document of an earlier delivery.
EarlierDocument == Document(Normalize("push", PushMain, isoformat(Instant(StartHour, 0))))

CallInit ==
    /\ client \in BOOLEAN
    /\ GITHUB_SECRET \in {"", "s3cret"}
    /\ events_collection \in {<<>>, <<EarlierDocument>>}
    /\ clock = Instant(StartHour, 1)
    /\ last = Boot

CallNext == last.route = "boot" /\ \E req \in CallRequests : Webhook(req)

CallSpec == CallInit /\ [][CallNext]_vars

(***************************** properties ***********************************)
WebhookCalled == last.route = "webhook"
ReadCalled == last.route \in {"events", "index"}

\* The handler reached the end of normalization: its event dict was built.
Built == WebhookCalled /\ last.event.timestamp # <<>>

Inserted == events_collection = Append(last.before, Document(last.event))
Untouched == events_collection = last.before

\* The instant a stored timestamp denotes.
InstantOf(timestamp) ==
    Instant(10 * (Ord[timestamp[1]] - Ord["0"]) + (Ord[timestamp[2]] - Ord["0"]),
            IF timestamp[3] = "." THEN 1 ELSE 0)

Stale(d, now) == Before(InstantOf(d.timestamp), MinusRetention(now))

\* C1: a webhook call whose signature check fails (header absent, secret
\* empty, or header different from the expected digest) is answered 401 and
\* leaves the collection as it was.  Stated for an available store.
C1_InvalidSignatureIs401 ==
    (/\ WebhookCalled
     /\ client
     /\ \/ GITHUB_SECRET = ""
        \/ last.request.signature # "valid")
    => (last.status = 401 /\ Untouched)

\* C2: every document of the collection has action PUSH, PULL_REQUEST or
\* MERGE, and a call whose event is UNKNOWN leaves the collection unchanged.
C2_NoUnknownStored ==
    /\ \A i \in 1..Len(events_collection) :
          events_collection[i].action \in {"PUSH", "PULL_REQUEST", "MERGE"}
    /\ (WebhookCalled /\ last.event.action = "UNKNOWN") => Untouched

C2_Witness ==
    /\ Built
    /\ last.event.action = "UNKNOWN"
    /\ last.request.event_type = "ping"
    /\ Len(events_collection) > 0

\* C3: a webhook call with the store available, a valid signature and a
\* payload that normalizes to PUSH, PULL_REQUEST or MERGE inserts exactly
\* that event, keeps the documents already there, and is answered 200.
C3_AcceptedIs200 ==
    (Built /\ last.event.action # "UNKNOWN") => (Inserted /\ last.status = 200)

\* C4: a purge at instant now removes all and only the documents whose
\* timestamp is strictly earlier than now - 24h, and a second purge at that
\* instant removes nothing more.
C4_PurgeExact ==
    (ReadCalled /\ client) =>
        /\ events_collection =
              SelectSeq(last.before, LAMBDA d : ~Stale(d, last.at))
        /\ clean_old_events(events_collection, last.at, client) = events_collection

C4_Witness ==
    /\ ReadCalled
    /\ Len(last.before) = 2
    /\ Len(events_collection) = 1
    /\ InstantOf(events_collection[1].timestamp) = MinusRetention(last.at)

Recognized == last.request.event_type \in {"push", "pull_request"}
LacksStructure ==
    LET data == last.request.data IN
    IF last.request.event_type = "push"
    THEN data.ref.k # "STR" \/ data.after = "MISSING" \/ data.sender # "OBJ"
    ELSE \/ data.pull_request # "OBJ"
         \/ data.pr_head # "OBJ"
         \/ data.pr_base # "OBJ"
         \/ data.action = "MISSING"
\* Every lacking part is an absent key (nothing is null or of a wrong type).
AbsentOnly ==
    LET data == last.request.data IN
    /\ data.body # "nonobject"
    /\ data.ref.k \in {"MISSING", "STR"}
    /\ \A v \in {data.sender, data.repository, data.pull_request,
                 data.pr_head, data.pr_base} : v \in {"MISSING", "OBJ"}
Signed == WebhookCalled /\ client /\ GITHUB_SECRET # "" /\ last.request.signature = "valid"

\* C6 as stated: a correctly signed call of a recognized event type whose
\* payload lacks the required nested structure is answered 400 and nothing
\* is inserted.
C6_MalformedIs400 ==
    (Signed /\ Recognized /\ LacksStructure) => (last.status = 400 /\ Untouched)

\* C6 amended: such a call is never answered 400.  It is answered 200 and
\* nothing is stored, or 500.  When every lacking part is an absent key the
\* handler fills in defaults: the event is built, it is inserted exactly
\* when its action is not UNKNOWN, and a push is always inserted.
C6_MalformedTolerated ==
    (Signed /\ Recognized /\ LacksStructure) =>
        /\ last.status \in {200, 500}
        /\ last.status = 200 => Untouched
        /\ AbsentOnly =>
              /\ Built
              /\ IF last.event.action = "UNKNOWN" THEN Untouched ELSE Inserted
              /\ last.request.event_type = "push" => last.event.action = "PUSH"

C6_Witness ==
    /\ Signed
    /\ last.request.event_type = "push"
    /\ last.request.data.ref.k = "MISSING"
    /\ last.request.data.sender = "MISSING"
    /\ Inserted
    /\ last.event.to_branch = <<>>

\* C7 as stated: the author is pusher.name, else sender.login, else
\* "Unknown" for a push, and pull_request.user.login, else "Unknown", for a
\* pull_request.
C7_AuthorFallbackChain ==
    LET data == last.request.data IN
    (Built /\ Recognized) =>
        last.event.author =
            IF last.request.event_type = "push"
            THEN IF data.pusher_name # "MISSING" THEN data.pusher_name
                 ELSE IF data.sender = "OBJ" /\ data.sender_login # "MISSING"
                      THEN data.sender_login
                      ELSE "Unknown"
            ELSE Get(data.pr_user_login, "Unknown")

\* C7 amended: the author is sender.login for every event type, and the
\* empty string when the payload has no sender or the sender no login.
C7_AuthorIsSenderLogin ==
    LET data == last.request.data IN
    Built =>
        last.event.author =
            IF data.sender = "OBJ" /\ data.sender_login # "MISSING"
            THEN data.sender_login
            ELSE ""

C7_Witness ==
    /\ Built
    /\ last.request.event_type = "push"
    /\ last.request.data.pusher_name = "carol"
    /\ last.event.author = "alice"

\* The ref with only a leading 'refs/heads/' removed.
StripLeading(s) ==
    IF Len(s) >= Len(BranchPrefix) /\ SubSeq(s, 1, Len(BranchPrefix)) = BranchPrefix
    THEN SubSeq(s, Len(BranchPrefix) + 1, Len(s))
    ELSE s

ReferenceDispatch(event_type, data) ==
    LET pr(action) ==
            [action |-> action,
             request_id |-> Get(data.pr_id, ""),
             from_branch |-> data.pr_head_ref,
             to_branch |-> data.pr_base_ref]
    IN
    IF event_type = "push"
    THEN [action |-> "PUSH", request_id |-> Get(data.after, ""),
          from_branch |-> <<>>, to_branch |-> StripLeading(data.ref.s)]
    ELSE IF event_type = "pull_request" /\ data.action = "closed"
            /\ data.pr_merged = "true"
    THEN pr("MERGE")
    ELSE IF event_type = "pull_request"
            /\ data.action \in {"opened", "reopened", "synchronize"}
    THEN pr("PULL_REQUEST")
    ELSE [action |-> "UNKNOWN", request_id |-> "",
          from_branch |-> <<>>, to_branch |-> <<>>]

\* C8: the action, request_id, from_branch and to_branch of the normalized
\* event are those of the reference dispatch, in which a push's to_branch is
\* the ref with only its leading refs/heads/ prefix stripped.
C8_DispatchMatchesReference ==
    Built =>
        LET want == ReferenceDispatch(last.request.event_type, last.request.data) IN
        /\ last.event.action = want.action
        /\ last.event.request_id = want.request_id
        /\ last.event.from_branch = want.from_branch
        /\ last.event.to_branch = want.to_branch

\* C9: a read purges before it queries, the write path never purges: every
\* event a read returns is no older than the read's instant minus 24h, the
\* list is the remaining collection ordered newest first, and a webhook call
\* keeps every document that was there, stale ones included.
C9_PurgeOnReadOnly ==
    /\ ReadCalled =>
          /\ \A i \in 1..Len(last.events) : ~Stale(last.events[i], last.at)
          /\ \A i, j \in 1..Len(last.events) :
                i < j => ~Before(InstantOf(last.events[i].timestamp),
                                 InstantOf(last.events[j].timestamp))
          /\ Len(last.events) = Len(events_collection)
          /\ \A i \in 1..Len(events_collection) :
                \E j \in 1..Len(last.events) : last.events[j] = events_collection[i]
    /\ WebhookCalled =>
          /\ Len(events_collection) >= Len(last.before)
          /\ SubSeq(events_collection, 1, Len(last.before)) = last.before

C9_Witness ==
    /\ WebhookCalled
    /\ \E i \in 1..Len(last.before) : Stale(last.before[i], last.at)
    /\ Len(events_collection) = Len(last.before) + 1

\* C10: on a correctly signed call normalization never fails: whatever is
\* missing, null or not an object in the payload, the handler builds its
\* event (degraded to UNKNOWN or to empty fields) and does not raise.
C10_NormalizationNeverRaises == Signed => Built

====
